---------------------------- MODULE Spec2Model ----------------------------
(***************************************************************************)
(* A model of document_neo4j_etl/src/process_pdfs.py: the pipeline         *)
(*   documents -> chunks -> elements -> summaries -> graph -> Neo4j        *)
(* Each stage is modelled from its function; a string is a sequence of     *)
(* one-character strings, so that slicing, strip, replace, split and       *)
(* startswith are computed as Python computes them.                        *)
(***************************************************************************)
EXTENDS Integers, Sequences, FiniteSets, TLC

VARIABLES
    pc,                     \* position of the function being run
    documents,              \* _split_documents_into_chunks: its argument
    chunk_size,             \*   "
    overlap_size,           \*   "
    chunks,                 \* list of chunks (result of the chunker, input of the extractor)
    elements,               \* list built by _extract_elements_from_chunks
    summaries,              \* list built by _summarize_elements, input of the graph builder
    index,                  \* loop position (enumerate index, 0-based) of the running loop
    calls,                  \* history: every completion-service call made, in order
    log,                    \* LOGGER.error / LOGGER.warning records, in order
    lines,                  \* _build_graph_from_summaries: the lines of the current summary
    line_no,                \*   lines of it processed so far
    entities_section,       \*   the two section flags
    relationships_section,
    entities,               \*   the entities list of the current summary
    G,                      \*   the graph being built
    parsed,                 \* history: the entity and relation lines applied to G, in order
    db,                     \* the Neo4j database: its Entity nodes and RELATION relationships
    op_no,                  \* _update_neo4j_with_graph: session.run calls made
    runs,                   \* calls of _update_neo4j_with_graph that have ended
    driver,                 \* process_txts_and_update_neo4j: the local variable driver
    txt_files               \* _process_txts_and_update_neo4j: number of .txt files listed

builderVars == <<lines, line_no, entities_section, relationships_section, entities,
                 G, parsed>>

tailVars == <<db, op_no, runs, driver, txt_files>>

vars == <<pc, documents, chunk_size, overlap_size, chunks, elements, summaries,
          index, calls, log, builderVars, tailVars>>

\* ------------------------------------------------------------------ bounds
MaxDocs == 2
MaxDocLen == 3
MaxChunkSize == 3

\* ------------------------------------------------------------------ helpers
Min(a, b) == IF a < b THEN a ELSE b

Range(s) == {s[i] : i \in 1..Len(s)}

SeqsUpTo(S, n) == UNION {[1..k -> S] : k \in 0..n}

RECURSIVE Flatten(_)
Flatten(ss) == IF ss = <<>> THEN <<>> ELSE Head(ss) \o Flatten(Tail(ss))

\* Python s[a:b] for 0 <= a and 0 <= b.
Slice(s, a, b) == SubSeq(s, a + 1, Min(b, Len(s)))

\* ------------------------------------------------------------------ chunker
DocChars == {"a", "b"}

\* The step of range(0, len(document), chunk_size - overlap_size).
RangeStepNoOverlap(L, O) == L
RangeStep(L, O) == L - O

\* list(range(0, n, step)) for n >= 0 and step # 0: empty when step < 0.
PyRange(n, step) ==
    IF step < 0 THEN <<>>
    ELSE [k \in 1..((n + step - 1) \div step) |-> (k - 1) * step]

\* The inner loop: the chunks of one document.
ChunksOfDocument(document, L, O) ==
    LET starts == PyRange(Len(document), RangeStep(L, O))
    IN  [k \in 1..Len(starts) |-> Slice(document, starts[k], starts[k] + L)]

\* range() raises ValueError for a zero step, when the first document is reached.
SplitRaisesValueError(docs, L, O) == docs # <<>> /\ RangeStep(L, O) = 0

_split_documents_into_chunks(docs, L, O) ==
    Flatten([j \in 1..Len(docs) |-> ChunksOfDocument(docs[j], L, O)])

Unused == "unused"

ExtractorIdle == elements = Unused /\ summaries = Unused /\ index = 0 /\ calls = <<>>
BuilderIdle ==
    /\ lines = Unused /\ line_no = 0
    /\ entities_section = FALSE /\ relationships_section = FALSE
    /\ entities = Unused /\ G = Unused /\ parsed = <<>>
TailIdle ==
    /\ db = Unused /\ op_no = 0 /\ runs = 0 /\ driver = Unused /\ txt_files = 0
ChunkerIdle == documents = Unused /\ chunk_size = Unused /\ overlap_size = Unused

InitChunker ==
    /\ pc = "split"
    /\ documents \in SeqsUpTo(SeqsUpTo(DocChars, MaxDocLen), MaxDocs)
    /\ chunk_size \in 1..MaxChunkSize
    /\ overlap_size \in 0..(MaxChunkSize + 1)
    /\ chunks = <<>>
    /\ ExtractorIdle
    /\ BuilderIdle
    /\ TailIdle
    /\ log = <<>>

SplitReturns ==
    /\ pc = "split"
    /\ ~SplitRaisesValueError(documents, chunk_size, overlap_size)
    /\ chunks' = _split_documents_into_chunks(documents, chunk_size, overlap_size)
    /\ pc' = "returned"
    /\ UNCHANGED <<builderVars, tailVars, documents, chunk_size, overlap_size, elements, summaries,
                   index, calls, log>>

SplitRaises ==
    /\ pc = "split"
    /\ SplitRaisesValueError(documents, chunk_size, overlap_size)
    /\ pc' = "ValueError"
    /\ UNCHANGED <<builderVars, tailVars, documents, chunk_size, overlap_size, chunks, elements,
                   summaries, index, calls, log>>

NextChunker == SplitReturns \/ SplitRaises

SpecChunker == InitChunker /\ [][NextChunker]_vars

\* ------------------------------------------------------------------ C6
CeilDiv(n, d) == (n + d - 1) \div d

\* Number of chunks the documents before document j contribute.
RECURSIVE ChunksBefore(_, _, _)
ChunksBefore(docs, j, step) ==
    IF j <= 1 THEN 0
    ELSE ChunksBefore(docs, j - 1, step) + CeilDiv(Len(docs[j - 1]), step)

\* C6: for 0 < O < L a document of length N yields ceil(N/(L-O)) chunks, in
\* document order; chunk k is the substring at offset k(L-O) of length
\* min(L, N - k(L-O)), between 1 and L; chunks k and k+1 share
\* min(O, N - (k+1)(L-O)) characters (suffix of k = prefix of k+1); the first
\* min(L-O, length) characters of the chunks concatenate to the document.
C6_ChunkLayout ==
    (pc = "returned" /\ 0 < overlap_size /\ overlap_size < chunk_size) =>
        LET L == chunk_size
            O == overlap_size
            s == L - O
            D == documents
            n(j) == CeilDiv(Len(D[j]), s)
            off(j) == ChunksBefore(D, j, s)
            ch(j, k) == chunks[off(j) + k + 1]
        IN  /\ Len(chunks) = ChunksBefore(D, Len(D) + 1, s)
            /\ \A j \in 1..Len(D) :
                 LET N == Len(D[j]) IN
                 /\ \A k \in 0..(n(j) - 1) :
                      /\ ch(j, k) = SubSeq(D[j], k * s + 1, k * s + Min(L, N - k * s))
                      /\ Len(ch(j, k)) >= 1 /\ Len(ch(j, k)) <= L
                 /\ \A k \in 0..(n(j) - 2) :
                      LET m == Min(O, N - (k + 1) * s)
                          a == ch(j, k)
                          b == ch(j, k + 1)
                      IN  /\ m >= 1
                          /\ Len(a) = s + m
                          /\ SubSeq(a, Len(a) - m + 1, Len(a)) = SubSeq(b, 1, m)
                 /\ Flatten([k \in 1..n(j) |->
                        SubSeq(ch(j, k - 1), 1, Min(s, Len(ch(j, k - 1))))]) = D[j]

\* A document longer than one chunk, after another document, has been split.
C6_Witness ==
    /\ pc = "returned" /\ 0 < overlap_size /\ overlap_size < chunk_size
    /\ Len(documents) = 2 /\ Len(documents[1]) > 0
    /\ Len(documents[2]) > chunk_size
    /\ Len(chunks) >= 3

\* C7: with O >= L the chunker fails (InvalidConfiguration) for every input and
\* never returns a chunk list.
C7_InvalidConfigurationRaised ==
    (overlap_size >= chunk_size) => pc \in {"split", "InvalidConfiguration"}

\* ------------------------------------------------- extractor and summarizer
MaxItems == 5

\* Texts the completion service is given and returns (their content is opaque here).
ItemTexts == {"t1", "t2"}
Responses == {"r1", "r2"}
ServiceError == "ServiceError"

Call(fn, i, item, outcome) == [fn |-> fn, index |-> i, item |-> item, outcome |-> outcome]
ErrorLog(fn, i) == [level |-> "error", fn |-> fn, index |-> i]

InitExtractor ==
    /\ ChunkerIdle
    /\ BuilderIdle
    /\ TailIdle
    /\ \/ /\ pc = "extract"
          /\ chunks \in SeqsUpTo(ItemTexts, MaxItems)
          /\ elements = <<>>
          /\ summaries = Unused
       \/ /\ pc = "summarize"
          /\ chunks = Unused
          /\ elements \in SeqsUpTo(ItemTexts, MaxItems)
          /\ summaries = <<>>
    /\ index = 0
    /\ calls = <<>>
    /\ log = <<>>

\* _extract_elements_from_chunks, one loop iteration whose call returns a response.
ExtractOk ==
    /\ pc = "extract" /\ index < Len(chunks)
    /\ \E r \in Responses :
         /\ calls' = Append(calls, Call("extract", index, chunks[index + 1], r))
         /\ elements' = Append(elements, r)
    /\ index' = index + 1
    /\ UNCHANGED <<builderVars, tailVars, pc, documents, chunk_size, overlap_size, chunks, summaries, log>>

\* The same iteration with try/except around the whole loop: a failure ends the loop.
ExtractFailsEndsLoop ==
    /\ pc = "extract" /\ index < Len(chunks)
    /\ calls' = Append(calls, Call("extract", index, chunks[index + 1], ServiceError))
    /\ log' = Append(log, ErrorLog("extract", index))
    /\ pc' = "returned"
    /\ UNCHANGED <<builderVars, tailVars, index, documents, chunk_size, overlap_size, chunks, elements, summaries>>

\* One loop iteration whose call raises: the except clause logs, the loop goes on.
ExtractFails ==
    /\ pc = "extract" /\ index < Len(chunks)
    /\ calls' = Append(calls, Call("extract", index, chunks[index + 1], ServiceError))
    /\ log' = Append(log, ErrorLog("extract", index))
    /\ index' = index + 1
    /\ UNCHANGED <<builderVars, tailVars, pc, documents, chunk_size, overlap_size, chunks, elements, summaries>>

ExtractReturns ==
    /\ pc = "extract" /\ index = Len(chunks)
    /\ pc' = "returned"
    /\ UNCHANGED <<builderVars, tailVars, documents, chunk_size, overlap_size, chunks, elements, summaries,
                   index, calls, log>>

\* _summarize_elements, one loop iteration whose call returns a response.
SummarizeOk ==
    /\ pc = "summarize" /\ index < Len(elements)
    /\ \E r \in Responses :
         /\ calls' = Append(calls, Call("summarize", index, elements[index + 1], r))
         /\ summaries' = Append(summaries, r)
    /\ index' = index + 1
    /\ UNCHANGED <<builderVars, tailVars, pc, documents, chunk_size, overlap_size, chunks, elements, log>>

SummarizeFails ==
    /\ pc = "summarize" /\ index < Len(elements)
    /\ calls' = Append(calls, Call("summarize", index, elements[index + 1], ServiceError))
    /\ log' = Append(log, ErrorLog("summarize", index))
    /\ index' = index + 1
    /\ UNCHANGED <<builderVars, tailVars, pc, documents, chunk_size, overlap_size, chunks, elements, summaries>>

SummarizeReturns ==
    /\ pc = "summarize" /\ index = Len(elements)
    /\ pc' = "returned"
    /\ UNCHANGED <<builderVars, tailVars, documents, chunk_size, overlap_size, chunks, elements, summaries,
                   index, calls, log>>

NextExtractor ==
    \/ ExtractOk \/ ExtractFails \/ ExtractReturns
    \/ SummarizeOk \/ SummarizeFails \/ SummarizeReturns

SpecExtractor == InitExtractor /\ [][NextExtractor]_vars

\* ------------------------------------------------------------------ C5
Succeeded(c) == c.outcome # ServiceError
Failed(c) == c.outcome = ServiceError

RECURSIVE OutcomesOf(_)
OutcomesOf(cs) ==
    IF cs = <<>> THEN <<>> ELSE <<Head(cs).outcome>> \o OutcomesOf(Tail(cs))

RECURSIVE IndicesOf(_)
IndicesOf(cs) ==
    IF cs = <<>> THEN <<>> ELSE <<Head(cs).index>> \o IndicesOf(Tail(cs))

\* What holds of a per-item loop over `items` that has built `out`.
IsolatedPerItem(fn, items, out) ==
    /\ pc \in {fn, "returned"}
    /\ Len(calls) = index
    /\ \A k \in 1..Len(calls) :
         calls[k].fn = fn /\ calls[k].index = k - 1 /\ calls[k].item = items[k]
    /\ pc = "returned" => Len(calls) = Len(items)
    /\ out = OutcomesOf(SelectSeq(calls, Succeeded))
    /\ Len(log) = Len(SelectSeq(calls, Failed))
    /\ \A k \in 1..Len(log) : log[k].level = "error" /\ log[k].fn = fn
    /\ IndicesOf(SelectSeq(calls, Failed)) = [k \in 1..Len(log) |-> log[k].index]

\* C5: in _extract_elements_from_chunks and in _summarize_elements every item is
\* attempted exactly once in input order, the function returns (it never
\* raises), the returned list is the responses of the items whose call did not
\* fail, in their order, and there is one error log entry per failing item.
C5_PerItemFailureIsolation ==
    IF summaries = Unused THEN IsolatedPerItem("extract", chunks, elements)
    ELSE IsolatedPerItem("summarize", elements, summaries)

\* Five chunks, the call for one of them (not the last) failed, four results.
C5_Witness ==
    /\ pc = "returned" /\ summaries = Unused
    /\ Len(chunks) = 5 /\ Len(elements) = 4 /\ Len(log) = 1
    /\ log[1].index = 2

\* ------------------------------------------------------------ Python strings
NL == "\n"
Whitespace == {" ", "\t", NL}
Digits == {"0", "1", "2", "3", "4", "5", "6", "7", "8", "9"}

\* str.startswith
StartsWith(s, p) == Len(s) >= Len(p) /\ SubSeq(s, 1, Len(p)) = p

Drop(s, n) == SubSeq(s, n + 1, Len(s))

RECURSIVE LStrip(_)
LStrip(s) == IF s # <<>> /\ Head(s) \in Whitespace THEN LStrip(Tail(s)) ELSE s

RECURSIVE RStrip(_)
RStrip(s) ==
    IF s # <<>> /\ s[Len(s)] \in Whitespace THEN RStrip(SubSeq(s, 1, Len(s) - 1)) ELSE s

\* str.strip()
Strip(s) == RStrip(LStrip(s))

\* s.replace(old, ""): the non-overlapping occurrences, left to right.
RECURSIVE RemoveAll(_, _)
RemoveAll(s, old) ==
    IF s = <<>> THEN <<>>
    ELSE IF StartsWith(s, old) THEN RemoveAll(Drop(s, Len(old)), old)
    ELSE <<Head(s)>> \o RemoveAll(Tail(s), old)

\* s.split(sep): `cur` is the part being read.
RECURSIVE SplitFrom(_, _, _)
SplitFrom(s, sep, cur) ==
    IF s = <<>> THEN <<cur>>
    ELSE IF StartsWith(s, sep) THEN <<cur>> \o SplitFrom(Drop(s, Len(sep)), sep, <<>>)
    ELSE SplitFrom(Tail(s), sep, Append(cur, Head(s)))

Split(s, sep) == SplitFrom(s, sep, <<>>)

\* s.split(sep, 1)[1] for an s that contains sep.
RECURSIVE AfterFirst(_, _)
AfterFirst(s, sep) ==
    IF StartsWith(s, sep) THEN Drop(s, Len(sep)) ELSE AfterFirst(Tail(s), sep)

\* sep.join(parts)
RECURSIVE Join(_, _)
Join(parts, sep) ==
    IF parts = <<>> THEN <<>>
    ELSE IF Len(parts) = 1 THEN parts[1]
    ELSE parts[1] \o sep \o Join(Tail(parts), sep)

\* sub in s
RECURSIVE Contains(_, _)
Contains(s, sub) ==
    IF Len(s) < Len(sub) THEN FALSE
    ELSE StartsWith(s, sub) \/ Contains(Tail(s), sub)

Arrow == <<"-", ">">>
Emphasis == <<"*", "*">>
Dot == <<".">>

\* ------------------------------------------------------------ networkx Graph
\* nx.Graph(): `nodes` is the insertion-ordered node dict; adj[n] is the
\* insertion-ordered neighbour dict of n, each neighbour with its label; an edge
\* u-v is one attribute dict held under adj[u][v] and under adj[v][u].
EmptyGraph == [nodes |-> <<>>, adj |-> <<>>]

HasNode(g, n) == n \in Range(g.nodes)

\* G.add_node(n): no change when n is already a node.
AddNode(g, n) ==
    IF HasNode(g, n) THEN g
    ELSE [nodes |-> Append(g.nodes, n), adj |-> (n :> <<>>) @@ g.adj]

\* SetNeighbour as setdefault would do it: an existing label is kept.
SetNeighbourKeepsFirst(nbrs, v, label) ==
    IF \E i \in 1..Len(nbrs) : nbrs[i].nbr = v
    THEN nbrs
    ELSE Append(nbrs, [nbr |-> v, label |-> label])

\* adj[u][v] = {label}: an existing key keeps its place in the dict.
SetNeighbour(nbrs, v, label) ==
    IF \E i \in 1..Len(nbrs) : nbrs[i].nbr = v
    THEN [i \in 1..Len(nbrs) |->
             IF nbrs[i].nbr = v THEN [nbr |-> v, label |-> label] ELSE nbrs[i]]
    ELSE Append(nbrs, [nbr |-> v, label |-> label])

\* add_edge that registers the source only: the target is a key of the
\* source's neighbour dict without being a node.
AddEdgeSourceOnly(g, u, v, label) ==
    LET g2 == AddNode(g, u)
        a1 == [g2.adj EXCEPT ![u] = SetNeighbour(@, v, label)]
        a2 == IF HasNode(g2, v) THEN [a1 EXCEPT ![v] = SetNeighbour(@, u, label)] ELSE a1
    IN  [nodes |-> g2.nodes, adj |-> a2]

\* G.add_edge(u, v, label=label): both endpoints become nodes, and the one
\* attribute dict of the edge is updated and stored in both directions.
AddEdge(g, u, v, label) ==
    LET g2 == AddNode(AddNode(g, u), v)
        a1 == [g2.adj EXCEPT ![u] = SetNeighbour(@, v, label)]
        a2 == [a1 EXCEPT ![v] = SetNeighbour(@, u, label)]
    IN  [nodes |-> g2.nodes, adj |-> a2]

HasEdge(g, u, v) ==
    /\ u \in DOMAIN g.adj
    /\ \E i \in 1..Len(g.adj[u]) : g.adj[u][i].nbr = v

\* G[u][v]['label'] for an edge u-v.
EdgeLabel(g, u, v) ==
    LET i == CHOOSE i \in 1..Len(g.adj[u]) : g.adj[u][i].nbr = v
    IN  g.adj[u][i].label

\* list(G.edges(data=True)): every node in order, with its neighbours that no
\* earlier node has reported; each item is <<edge[0], edge[1], label>>.
EdgesData(g) ==
    LET OfNode(i) ==
            LET seen == {g.nodes[j] : j \in 1..(i - 1)}
                Unseen(e) == e.nbr \notin seen
                es == SelectSeq(g.adj[g.nodes[i]], Unseen)
            IN  [k \in 1..Len(es) |-> <<g.nodes[i], es[k].nbr, es[k].label>>]
    IN  Flatten([i \in 1..Len(g.nodes) |-> OfNode(i)])

\* ------------------------------------------------------------- graph builder
EntitiesHeaders == {<<"#", "#", "#", " ", "E", "n", "t", "i", "t", "i", "e", "s", ":">>, <<"*", "*", "E", "n", "t", "i", "t", "i", "e", "s", ":", "*", "*">>, <<"E", "n", "t", "i", "t", "i", "e", "s", ":">>}
RelationshipsHeaders == {<<"#", "#", "#", " ", "R", "e", "l", "a", "t", "i", "o", "n", "s", "h", "i", "p", "s", ":">>, <<"*", "*", "R", "e", "l", "a", "t", "i", "o", "n", "s", "h", "i", "p", "s", ":", "*", "*">>, <<"R", "e", "l", "a", "t", "i", "o", "n", "s", "h", "i", "p", "s", ":">>}

IsEntitiesHeader(line) == \E h \in EntitiesHeaders : StartsWith(line, h)
IsRelationshipsHeader(line) ==
    ~IsEntitiesHeader(line) /\ \E h \in RelationshipsHeaders : StartsWith(line, h)

\* `line.strip()` is true.
HasText(line) == Strip(line) # <<>>

\* line[0].isdigit() and line[1] == ".": line[1] raises IndexError on a
\* one-character line that is a digit.
MarkerTestRaises(line) == line[1] \in Digits /\ Len(line) < 2
HasMarker(line) == line[1] \in Digits /\ Len(line) >= 2 /\ line[2] = "."

\* The entity of an entity line.
EntityOf(line) ==
    LET l2 == IF HasMarker(line) THEN Strip(AfterFirst(line, Dot)) ELSE line
    IN  RemoveAll(Strip(l2), Emphasis)

\* The parts of a relationship line: first, last, and what lies between.
SourceOf(parts) == Strip(parts[1])
TargetOf(parts) == Strip(parts[Len(parts)])
RelationOf(parts) ==
    Strip(Join(SubSeq(parts, 2, Len(parts) - 1), <<" ">> \o Arrow \o <<" ">>))

\* What the loop body does with a line, given the two section flags.
LineKind(line, es, rs) ==
    IF IsEntitiesHeader(line) THEN "entities_header"
    ELSE IF IsRelationshipsHeader(line) THEN "relationships_header"
    ELSE IF es /\ HasText(line)
         THEN (IF MarkerTestRaises(line) THEN "raises" ELSE "entity")
    ELSE IF rs /\ HasText(line)
         THEN (IF Len(Split(line, Arrow)) >= 2 THEN "relation" ELSE "no_arrow")
    ELSE "skipped"

\* The lines the sample summaries are made of.
L_E_A == <<"A">>
L_E_1A == <<"1", ".", " ", "A">>
L_E_2B == <<"2", ".", " ", "B">>
L_E_emA == <<"*", "*", "A", "*", "*">>
L_E_1emA == <<"1", ".", " ", "*", "*", " ", "A", " ", "*", "*">>
L_E_spB == <<" ", "B", " ">>
L_E_B == <<"B">>
L_E_digit == <<"1">>
L_Blank == <<>>
L_R_AxB == <<"A", "-", ">", "x", "-", ">", "B">>
L_R_AyB == <<"A", " ", "-", ">", " ", "y", " ", "-", ">", " ", "B">>
L_R_BzA == <<"B", "-", ">", "z", "-", ">", "A">>
L_R_emAxB == <<"*", "*", "A", "*", "*", " ", "-", ">", " ", "x", " ", "-", ">", " ", "B">>
L_R_AB == <<"A", "-", ">", "B">>
L_R_AxyB == <<"A", "-", ">", "x", "-", ">", "y", "-", ">", "B">>
L_R_CxA == <<"C", "-", ">", "x", "-", ">", "A">>
L_R_none == <<"A", " ", "k", "n", "o", "w", "s", " ", "B">>
L_HE1 == <<"#", "#", "#", " ", "E", "n", "t", "i", "t", "i", "e", "s", ":">>
L_HE2 == <<"*", "*", "E", "n", "t", "i", "t", "i", "e", "s", ":", "*", "*">>
L_HE3 == <<"E", "n", "t", "i", "t", "i", "e", "s", ":">>
L_HR1 == <<"#", "#", "#", " ", "R", "e", "l", "a", "t", "i", "o", "n", "s", "h", "i", "p", "s", ":">>
L_HR2 == <<"*", "*", "R", "e", "l", "a", "t", "i", "o", "n", "s", "h", "i", "p", "s", ":", "*", "*">>
L_HR3 == <<"R", "e", "l", "a", "t", "i", "o", "n", "s", "h", "i", "p", "s", ":">>

Text(ls) == Join(ls, <<NL>>)

\* Summaries as the summarizer may return them: the three spellings of each
\* header, entity lines plain, enumerated, emphasised and padded, a one-digit
\* entity line, relationship lines in both directions, with and without a
\* label, chained, emphasised, and without "->", and text outside any section.
SummarySamples == {
    Text(<<L_HE3, L_E_1A, L_E_2B, L_HR3, L_R_AxB>>),
    Text(<<L_HE1, L_E_emA, L_Blank, L_HR1, L_R_AyB>>),
    Text(<<L_HE2, L_E_spB, L_HR2, L_R_BzA>>),
    Text(<<L_HE3, L_E_digit>>),
    Text(<<L_HE3, L_E_A, L_E_digit, L_E_B>>),
    Text(<<L_HR3, L_R_CxA, L_R_none>>),
    Text(<<L_HE3, L_E_1emA>>),
    Text(<<L_HR3, L_R_emAxB>>),
    Text(<<L_HR3, L_R_AxyB, L_R_AB>>),
    Text(<<L_HE3, L_E_B, L_HR3, L_R_AxB>>),
    Text(<<L_E_A, L_R_AxB>>),
    Text(<<L_HR3, L_R_AxB, L_R_AyB>>),
    Text(<<L_HR3, L_R_AyB, L_HE3, L_E_B>>),
    Text(<<>>)
}

MaxSummaries == 2

EntityRecord(name) == [kind |-> "entity", name |-> name]
RelationRecord(s, t, l) == [kind |-> "relation", source |-> s, target |-> t, label |-> l]

InitBuilder ==
    /\ pc = "build"
    /\ ChunkerIdle
    /\ chunks = Unused /\ elements = Unused /\ calls = <<>>
    /\ summaries \in SeqsUpTo(SummarySamples, MaxSummaries)
    /\ index = 0
    /\ lines = <<>> /\ line_no = 0
    /\ entities_section = FALSE /\ relationships_section = FALSE
    /\ entities = <<>>
    /\ G = EmptyGraph
    /\ parsed = <<>>
    /\ log = <<>>
    /\ TailIdle

restVars == <<documents, chunk_size, overlap_size, chunks, elements, calls, tailVars>>

\* for summary in summaries: the top of the loop body.
BuildNextSummary ==
    /\ pc = "build" /\ index < Len(summaries)
    /\ lines' = Split(summaries[index + 1], <<NL>>)
    /\ line_no' = 0
    /\ entities_section' = FALSE /\ relationships_section' = FALSE
    /\ entities' = <<>>
    /\ pc' = "lines"
    /\ UNCHANGED <<restVars, summaries, index, G, parsed, log>>

CurrentLine == lines[line_no + 1]

AtLine(kind) ==
    /\ pc = "lines" /\ line_no < Len(lines)
    /\ LineKind(CurrentLine, entities_section, relationships_section) = kind

LineEntitiesHeader ==
    /\ AtLine("entities_header")
    /\ entities_section' = TRUE /\ relationships_section' = FALSE
    /\ line_no' = line_no + 1
    /\ UNCHANGED <<restVars, pc, summaries, index, lines, entities, G, parsed, log>>

LineRelationshipsHeader ==
    /\ AtLine("relationships_header")
    /\ entities_section' = FALSE /\ relationships_section' = TRUE
    /\ line_no' = line_no + 1
    /\ UNCHANGED <<restVars, pc, summaries, index, lines, entities, G, parsed, log>>

LineEntity ==
    /\ AtLine("entity")
    /\ LET entity == EntityOf(CurrentLine) IN
         /\ entities' = Append(entities, entity)
         /\ G' = AddNode(G, entity)
         /\ parsed' = Append(parsed, EntityRecord(entity))
    /\ line_no' = line_no + 1
    /\ UNCHANGED <<restVars, pc, summaries, index, lines, entities_section,
                   relationships_section, log>>

\* The exception leaves both loops: the except clause of the function logs it,
\* and the function returns the graph built so far.
LineRaises ==
    /\ AtLine("raises")
    /\ log' = Append(log, [level |-> "error", fn |-> "build", index |-> index])
    /\ pc' = "returned"
    /\ UNCHANGED <<restVars, summaries, index, builderVars>>

LineRelation ==
    /\ AtLine("relation")
    /\ LET parts == Split(CurrentLine, Arrow)
           source == SourceOf(parts)
           target == TargetOf(parts)
           relation == RelationOf(parts)
       IN  /\ G' = AddEdge(G, source, target, relation)
           /\ parsed' = Append(parsed, RelationRecord(source, target, relation))
    /\ line_no' = line_no + 1
    /\ UNCHANGED <<restVars, pc, summaries, index, lines, entities_section,
                   relationships_section, entities, log>>

\* A relationship line without "->".
LineWithoutArrow ==
    /\ AtLine("no_arrow")
    /\ line_no' = line_no + 1
    /\ UNCHANGED <<restVars, pc, summaries, index, lines, entities_section,
                   relationships_section, entities, G, parsed, log>>

\* A blank line, or a line outside both sections.
LineSkipped ==
    /\ AtLine("skipped")
    /\ line_no' = line_no + 1
    /\ UNCHANGED <<restVars, pc, summaries, index, lines, entities_section,
                   relationships_section, entities, G, parsed, log>>

EndOfSummary ==
    /\ pc = "lines" /\ line_no = Len(lines)
    /\ index' = index + 1
    /\ pc' = "build"
    /\ UNCHANGED <<restVars, summaries, log, builderVars>>

BuildReturns ==
    /\ pc = "build" /\ index = Len(summaries)
    /\ pc' = "returned"
    /\ UNCHANGED <<restVars, summaries, index, log, builderVars>>

NextBuilder ==
    \/ BuildNextSummary
    \/ LineEntitiesHeader \/ LineRelationshipsHeader
    \/ LineEntity \/ LineRaises \/ LineRelation
    \/ LineWithoutArrow \/ LineSkipped
    \/ EndOfSummary \/ BuildReturns

SpecBuilder == InitBuilder /\ [][NextBuilder]_vars

\* ------------------------------------------------------------------ C1
IsRelation(k) == parsed[k].kind = "relation"
IsEntity(k) == parsed[k].kind = "entity"
Nodes(g) == Range(g.nodes)
Edges(g) == Range(EdgesData(g))

\* C1: every edge of the graph has both endpoints among its nodes, and so has
\* every name read as the source or target of a relationship line, whether or
\* not an entity line names it.
C1_EdgeEndpointsAreNodes ==
    /\ \A e \in Edges(G) : e[1] \in Nodes(G) /\ e[2] \in Nodes(G)
    /\ \A u \in DOMAIN G.adj : \A i \in 1..Len(G.adj[u]) :
         u \in Nodes(G) /\ G.adj[u][i].nbr \in Nodes(G)
    /\ \A k \in 1..Len(parsed) :
         IsRelation(k) => parsed[k].source \in Nodes(G) /\ parsed[k].target \in Nodes(G)

\* The function has returned a graph with an edge whose target no entity line named.
C1_Witness ==
    /\ pc = "returned"
    /\ \E k \in 1..Len(parsed) :
         /\ IsRelation(k)
         /\ \A j \in 1..Len(parsed) : IsEntity(j) => parsed[j].name # parsed[k].target
         /\ \E e \in Edges(G) : parsed[k].target \in {e[1], e[2]}
         /\ parsed[k].target \in Nodes(G)

\* ------------------------------------------------------------------ C2
\* The graph one summary yields when parsed on its own, and whether its parse raises.
RECURSIVE ParseLines(_, _, _, _)
ParseLines(g, ls, es, rs) ==
    IF ls = <<>> THEN [graph |-> g, raised |-> FALSE]
    ELSE LET line == Head(ls)
             kind == LineKind(line, es, rs)
             parts == Split(line, Arrow)
         IN  CASE kind = "entities_header" -> ParseLines(g, Tail(ls), TRUE, FALSE)
               [] kind = "relationships_header" -> ParseLines(g, Tail(ls), FALSE, TRUE)
               [] kind = "entity" -> ParseLines(AddNode(g, EntityOf(line)), Tail(ls), es, rs)
               [] kind = "relation" ->
                    ParseLines(AddEdge(g, SourceOf(parts), TargetOf(parts), RelationOf(parts)),
                               Tail(ls), es, rs)
               [] kind = "raises" -> [graph |-> g, raised |-> TRUE]
               [] OTHER -> ParseLines(g, Tail(ls), es, rs)

ParseAlone(summary) == ParseLines(EmptyGraph, Split(summary, <<NL>>), FALSE, FALSE)

\* C2: a summary whose parse raises is skipped and the summaries after it are
\* still parsed: what each of them defines is in the returned graph.
C2_LaterSummariesStillParsed ==
    pc = "returned" =>
        \A i \in 1..Len(summaries) : \A j \in (i + 1)..Len(summaries) :
            (ParseAlone(summaries[i]).raised /\ ~ParseAlone(summaries[j]).raised) =>
                LET own == ParseAlone(summaries[j]).graph
                IN  /\ Nodes(own) \subseteq Nodes(G)
                    /\ \A e \in Edges(own) : HasEdge(G, e[1], e[2])

\* ------------------------------------------------------------------ C3
Joins(k, u, v) == IsRelation(k) /\ {parsed[k].source, parsed[k].target} = {u, v}

\* The relation line between u and v processed last.
LastJoining(u, v) ==
    CHOOSE k \in 1..Len(parsed) :
        Joins(k, u, v) /\ \A j \in (k + 1)..Len(parsed) : ~Joins(j, u, v)

FromTo(k, s, t) == IsRelation(k) /\ parsed[k].source = s /\ parsed[k].target = t

\* The relation line with source s and target t processed last.
LastFromTo(s, t) ==
    CHOOSE k \in 1..Len(parsed) :
        FromTo(k, s, t) /\ \A j \in (k + 1)..Len(parsed) : ~FromTo(j, s, t)

\* C4: a relation is keyed by the ordered pair: after a line from A to B and a
\* later line from B to A (A # B) the graph holds an edge from A to B and an
\* edge from B to A, each with the label of its own line and with source and
\* target as written.
C4_OrderedPairKeepsOwnEdge ==
    pc = "returned" =>
        \A i, j \in 1..Len(parsed) :
            (/\ i < j /\ IsRelation(i) /\ IsRelation(j)
             /\ parsed[i].source # parsed[i].target
             /\ parsed[j].source = parsed[i].target
             /\ parsed[j].target = parsed[i].source) =>
                LET a == parsed[i].source
                    b == parsed[i].target
                IN  /\ <<a, b, parsed[LastFromTo(a, b)].label>> \in Edges(G)
                    /\ <<b, a, parsed[LastFromTo(b, a)].label>> \in Edges(G)

\* ------------------------------------------------------------------ C10
Normalized(name) == Strip(name) = name /\ ~Contains(name, Emphasis)

\* C10: every node name is normalized: no leading or trailing whitespace and no
\* "**", whether it came from an entity line or from a relationship line.
C10_NodeNamesNormalized ==
    \A n \in Nodes(G) : Normalized(n)

\* ------------------------------------------------------------------ persister
MaxRuns == 2

\* A bag: a function from its elements to their number of copies.
EmptyBag == <<>>
InBag(e, bag) == e \in DOMAIN bag
WithOneMore(bag, e) ==
    IF InBag(e, bag) THEN [bag EXCEPT ![e] = @ + 1] ELSE (e :> 1) @@ bag

EmptyDb == [nodes |-> EmptyBag, rels |-> EmptyBag]

\* MERGE (n:Entity {name: $name}): create the node unless one has the name.
MergeNode(d, name) ==
    IF InBag(name, d.nodes) THEN d
    ELSE [d EXCEPT !.nodes = WithOneMore(@, name)]

\* MATCH (a:Entity {name: $source}), (b:Entity {name: $target})
\* MERGE (a)-[r:RELATION {label: $label}]->(b): without both nodes nothing is
\* matched; with them, a relationship from a to b WITH THIS LABEL is matched,
\* or else created.
MergeRelation(d, source, target, label) ==
    IF ~(InBag(source, d.nodes) /\ InBag(target, d.nodes)) THEN d
    ELSE IF InBag(<<source, target, label>>, d.rels) THEN d
    ELSE [d EXCEPT !.rels = WithOneMore(@, <<source, target, label>>)]

NodeOp(name) == [kind |-> "node", name |-> name]
EdgeOp(e) == [kind |-> "edge", source |-> e[1], target |-> e[2], label |-> e[3]]

\* The session.run calls of one call, in order: G.nodes, then G.edges(data=True).
PersistOps(g) ==
    [i \in 1..Len(g.nodes) |-> NodeOp(g.nodes[i])]
        \o [i \in 1..Len(EdgesData(g)) |-> EdgeOp(EdgesData(g)[i])]

ApplyOp(d, op) ==
    IF op.kind = "node" THEN MergeNode(d, op.name)
    ELSE MergeRelation(d, op.source, op.target, op.label)

\* The graphs _build_graph_from_summaries returns for the sample summaries.
GraphSamples == {ParseAlone(s).graph : s \in SummarySamples}

persistRest == <<documents, chunk_size, overlap_size, chunks, elements, summaries,
                 index, calls, lines, line_no, entities_section,
                 relationships_section, entities, parsed, driver, txt_files>>

InitPersister ==
    /\ pc = "persist"
    /\ ChunkerIdle
    /\ chunks = Unused /\ elements = Unused /\ summaries = Unused
    /\ index = 0 /\ calls = <<>> /\ log = <<>>
    /\ lines = Unused /\ line_no = 0
    /\ entities_section = FALSE /\ relationships_section = FALSE
    /\ entities = Unused /\ parsed = <<>>
    /\ G \in GraphSamples
    /\ db = EmptyDb
    /\ op_no = 0 /\ runs = 0
    /\ driver = "open" /\ txt_files = 0

\* One session.run call of the two loops.
PersistOp ==
    /\ pc = "persist" /\ op_no < Len(PersistOps(G))
    /\ db' = ApplyOp(db, PersistOps(G)[op_no + 1])
    /\ op_no' = op_no + 1
    /\ UNCHANGED <<persistRest, pc, G, runs, log>>

\* session.run (or driver.session) raises: the except clause logs and returns.
PersistOpRaises ==
    /\ pc = "persist" /\ op_no < Len(PersistOps(G))
    /\ log' = Append(log, [level |-> "error", fn |-> "persist", index |-> op_no])
    /\ pc' = "persisted"
    /\ runs' = runs + 1
    /\ UNCHANGED <<persistRest, G, db, op_no>>

PersistReturns ==
    /\ pc = "persist" /\ op_no = Len(PersistOps(G))
    /\ pc' = "persisted"
    /\ runs' = runs + 1
    /\ UNCHANGED <<persistRest, G, db, op_no, log>>

\* A later run of the program persists its graph into the same database.
NextRun ==
    /\ pc = "persisted" /\ runs < MaxRuns
    /\ G' \in GraphSamples
    /\ op_no' = 0
    /\ log' = <<>>
    /\ pc' = "persist"
    /\ UNCHANGED <<persistRest, db, runs>>

NextPersister == PersistOp \/ PersistOpRaises \/ PersistReturns \/ NextRun

SpecPersister == InitPersister /\ [][NextPersister]_vars

\* ------------------------------------------------------------------ C8
RelsFromTo(d, s, t) == {r \in DOMAIN d.rels : r[1] = s /\ r[2] = t}

\* C8: the edge operation is a create-or-update keyed by (source, target): once
\* a graph is persisted (every operation issued, none failed), for each of its
\* edges (s, t, l) the database holds exactly one relation from s to t, and
\* its label is l.
C8_EdgeUpsertKeyedBySourceTarget ==
    (pc = "persisted" /\ log = <<>>) =>
        \A e \in Edges(G) :
            /\ RelsFromTo(db, e[1], e[2]) = {<<e[1], e[2], e[3]>>}
            /\ db.rels[<<e[1], e[2], e[3]>>] = 1

\* ------------------------------------------------------------------ the run
MaxFiles == 2

\* The defaults of _split_documents_into_chunks, which the run uses.
DefaultChunkSize == 600
DefaultOverlapSize == 100

Unbound == "unbound"

\* The texts a file may hold.
FileTexts == {<<>>, <<"a">>, <<"a", "b">>}

\* _build_graph_from_summaries as a whole: the first summary whose parse
\* raises ends the loop.
RECURSIVE BuildGraphFrom(_, _)
BuildGraphFrom(g, ss) ==
    IF ss = <<>> THEN g
    ELSE LET r == ParseLines(g, Split(Head(ss), <<NL>>), FALSE, FALSE)
         IN  IF r.raised THEN r.graph ELSE BuildGraphFrom(r.graph, Tail(ss))

_build_graph_from_summaries(ss) == BuildGraphFrom(EmptyGraph, ss)

InitRun ==
    /\ pc = "start"
    /\ documents = <<>>
    /\ chunk_size = DefaultChunkSize /\ overlap_size = DefaultOverlapSize
    /\ chunks = <<>> /\ elements = <<>> /\ summaries = <<>>
    /\ index = 0 /\ calls = <<>> /\ log = <<>>
    /\ lines = Unused /\ line_no = 0
    /\ entities_section = FALSE /\ relationships_section = FALSE
    /\ entities = Unused /\ parsed = <<>>
    /\ G = EmptyGraph
    /\ db \in {EmptyDb, MergeNode(EmptyDb, <<"A">>)}
    /\ op_no = 0 /\ runs = 0
    /\ driver = Unbound
    /\ txt_files = 0

runRest == <<chunk_size, overlap_size, lines, line_no, entities_section,
             relationships_section, entities, parsed, runs>>

TopLevelError == [level |-> "error", fn |-> "process_txts_and_update_neo4j", index |-> 0]
ProcessError == [level |-> "error", fn |-> "_process_txts_and_update_neo4j", index |-> 0]
NoFilesWarning == [level |-> "warning", fn |-> "_process_txts_and_update_neo4j", index |-> 0]

\* driver = GraphDatabase.driver(...) returns a driver.
Connect ==
    /\ pc = "start"
    /\ calls' = Append(calls, "GraphDatabase.driver")
    /\ driver' = "open"
    /\ pc' = "listdir"
    /\ UNCHANGED <<runRest, documents, chunks, elements, summaries, index, log, G, db,
                   op_no, txt_files>>

\* GraphDatabase.driver(...) raises (no URI, bad credentials): driver is never
\* assigned; the except clause logs, then the finally clause runs.
ConnectRaises ==
    /\ pc = "start"
    /\ calls' = Append(calls, "GraphDatabase.driver raised")
    /\ log' = Append(log, TopLevelError)
    /\ pc' = "finally"
    /\ UNCHANGED <<runRest, documents, chunks, elements, summaries, index, G, db,
                   op_no, driver, txt_files>>

\* os.listdir: with no .txt file a warning is logged and the function returns.
ListFiles ==
    /\ pc = "listdir"
    /\ \E n \in 0..MaxFiles :
         /\ txt_files' = n
         /\ IF n = 0
            THEN log' = Append(log, NoFilesWarning) /\ pc' = "finally"
            ELSE log' = log /\ pc' = "read"
    /\ UNCHANGED <<runRest, documents, chunks, elements, summaries, index, calls, G, db,
                   op_no, driver>>

ReadFile ==
    /\ pc = "read" /\ Len(documents) < txt_files
    /\ \E text \in FileTexts : documents' = Append(documents, text)
    /\ UNCHANGED <<runRest, pc, chunks, elements, summaries, index, calls, log, G, db,
                   op_no, driver, txt_files>>

\* os.listdir, open or read raises: the except clause of
\* _process_txts_and_update_neo4j logs and the function returns.
FilesRaise ==
    /\ pc \in {"listdir", "read"} /\ (pc = "read" => Len(documents) < txt_files)
    /\ log' = Append(log, ProcessError)
    /\ pc' = "finally"
    /\ UNCHANGED <<runRest, documents, chunks, elements, summaries, index, calls, G, db,
                   op_no, driver, txt_files>>

\* The four in-memory stages; the completion service answers each item or fails.
Stages ==
    /\ pc = "read" /\ Len(documents) = txt_files
    /\ chunks' = _split_documents_into_chunks(documents, chunk_size, overlap_size)
    /\ elements' \in SeqsUpTo(Responses, Len(chunks'))
    /\ summaries' \in SeqsUpTo(SummarySamples, Len(elements'))
    /\ G' = _build_graph_from_summaries(summaries')
    /\ pc' = "persist"
    /\ UNCHANGED <<runRest, documents, index, calls, log, db, op_no, driver, txt_files>>

RunPersistOp ==
    /\ pc = "persist" /\ op_no < Len(PersistOps(G))
    /\ db' = ApplyOp(db, PersistOps(G)[op_no + 1])
    /\ calls' = Append(calls, "session.run")
    /\ op_no' = op_no + 1
    /\ UNCHANGED <<runRest, pc, documents, chunks, elements, summaries, index, log, G,
                   driver, txt_files>>

RunPersistOpRaises ==
    /\ pc = "persist" /\ op_no < Len(PersistOps(G))
    /\ calls' = Append(calls, "session.run raised")
    /\ log' = Append(log, [level |-> "error", fn |-> "persist", index |-> op_no])
    /\ pc' = "finally"
    /\ UNCHANGED <<runRest, documents, chunks, elements, summaries, index, G, db, op_no,
                   driver, txt_files>>

RunPersistReturns ==
    /\ pc = "persist" /\ op_no = Len(PersistOps(G))
    /\ pc' = "finally"
    /\ UNCHANGED <<runRest, documents, chunks, elements, summaries, index, calls, log,
                   G, db, op_no, driver, txt_files>>

\* finally: driver.close(), with driver bound.
CloseDriver ==
    /\ pc = "finally" /\ driver = "open"
    /\ calls' = Append(calls, "driver.close")
    /\ driver' = "closed"
    /\ pc' = "done"
    /\ UNCHANGED <<runRest, documents, chunks, elements, summaries, index, log, G, db,
                   op_no, txt_files>>

\* finally: driver.close(), with driver never assigned: evaluating the name
\* raises UnboundLocalError, which leaves the function.
CloseUnbound ==
    /\ pc = "finally" /\ driver = Unbound
    /\ pc' = "UnboundLocalError"
    /\ UNCHANGED <<runRest, documents, chunks, elements, summaries, index, calls, log,
                   G, db, op_no, driver, txt_files>>

NextProgramRun ==
    \/ Connect \/ ConnectRaises
    \/ ListFiles \/ ReadFile \/ FilesRaise \/ Stages
    \/ RunPersistOp \/ RunPersistOpRaises \/ RunPersistReturns
    \/ CloseDriver \/ CloseUnbound

SpecRun == InitRun /\ [][NextProgramRun]_vars

\* ------------------------------------------------------------------ C9
CountOf(seq, x) == Cardinality({i \in 1..Len(seq) : seq[i] = x})

\* C9: a run acquires the connection at most once, and on every exit path its
\* release step finishes without error: an acquired connection is closed
\* exactly once, after the last database operation, and a failed connection
\* attempt ends the run by logging, no exception leaving the release step.
C9_ReleaseOnEveryExitPath ==
    /\ CountOf(calls, "GraphDatabase.driver")
         + CountOf(calls, "GraphDatabase.driver raised") <= 1
    /\ pc # "UnboundLocalError"
    /\ pc = "done" =>
         \/ /\ CountOf(calls, "GraphDatabase.driver") = 1
            /\ CountOf(calls, "driver.close") = 1
            /\ calls[Len(calls)] = "driver.close"
            /\ driver = "closed"
         \/ /\ CountOf(calls, "GraphDatabase.driver raised") = 1
            /\ CountOf(calls, "driver.close") = 0
            /\ log = <<TopLevelError>>

=============================================================================
